---- MODULE Spec2Model ----
(***************************************************************************)
(* Delivery Status Analysis Dashboard (orders.py).                         *)
(*                                                                         *)
(* One run of main() is one atomic step: the script is re-executed from    *)
(* top to bottom on every user interaction.  A data frame is a record      *)
(* [columns, rows]; a row is a function from column names to cells; a cell *)
(* is <<>> when it is missing (NaN / NaT) and <<v>> when it holds v.  A     *)
(* boolean mask df[mask] is SelectSeq: the rows that satisfy it, in order.  *)
(* Timestamps are hours since 2024-01-01 00:00, dates are days since       *)
(* 2024-01-01.  A value rounded to one decimal is kept in tenths.          *)
(***************************************************************************)
EXTENDS Integers, Sequences, FiniteSets, TLC

VARIABLES
    disk,            \* the CSV file the user has at hand
    uploaded_file,   \* value of st.file_uploader: NoFile or <<the CSV>>
    cache,           \* st.cache_data memo of load_data: set of <<file, frame>>
    selected_hubs,   \* value of the multiselect widget
    selected_dates,  \* value of the date_input widget (tuple of 0..2 dates)
    outcome,         \* how the last run of main() ended
    message,         \* st.error text shown by the last run
    hub_filtered_df, \* filtered_df as line 44 assigns it
    filtered_df,     \* filtered_df at the end of the last run
    pivot_records,   \* pivot_records of the last run
    pivot_data,      \* numeric pivot table of the last run
    display_data,    \* display copy with the Grand Total row
    metrics,         \* the three st.metric values
    rows_shown,      \* the record table st.dataframe shows below the pivot
    observed         \* history: the selections and pivot table of an earlier run

vars == <<disk, uploaded_file, cache, selected_hubs, selected_dates, outcome,
          message, hub_filtered_df, filtered_df, pivot_records, pivot_data, display_data,
          metrics, rows_shown, observed>>

----------------------------------------------------------------------------
(* Values *)

NaN == <<>>
NaT == <<>>
NoFile == <<>>
None == <<>>
NoFrame == [columns |-> {}, rows |-> <<>>]
NoPivot == [index |-> <<>>, columns |-> <<>>, cells |-> <<>>]
NoMetrics == [total_orders |-> 0, unique_dates |-> 0, average |-> NaN]

Range(s) == {s[i] : i \in 1..Len(s)}

RECURSIVE SumSeq(_)
SumSeq(s) == IF s = <<>> THEN 0 ELSE Head(s) + SumSeq(Tail(s))

Min(S) == CHOOSE x \in S : \A y \in S : x <= y
Max(S) == CHOOSE x \in S : \A y \in S : x >= y

\* sorted(...) over a set of integers
RECURSIVE sorted(_)
sorted(S) == IF S = {} THEN <<>> ELSE <<Min(S)>> \o sorted(S \ {Min(S)})

----------------------------------------------------------------------------
(* load_data *)

date_cols == {"Picked on"}

HoursPerDay == 24

\* the timestamp texts pd.to_datetime can parse, with their value
Timestamps ==
    { [text |-> "2024-01-01 09:00", hours |-> 9],
      [text |-> "2024-01-01 17:30", hours |-> 17],
      [text |-> "2024-01-02 09:00", hours |-> 33],
      [text |-> "2024-01-03 09:00", hours |-> 57] }

\* pd.to_datetime(cell, errors='coerce'): unparsable and empty cells become NaT
to_datetime(cell) ==
    IF cell # NaN /\ \E t \in Timestamps : t.text = cell[1]
    THEN <<(CHOOSE t \in Timestamps : t.text = cell[1]).hours>>
    ELSE NaT

\* returns <<frame>>, or None when pd.read_csv raises
load_data(file) ==
    IF ~file.parses THEN None
    ELSE <<[columns |-> file.columns,
            rows |-> [i \in 1..Len(file.rows) |->
                        [c \in file.columns |->
                            IF c \in date_cols THEN to_datetime(file.rows[i][c])
                            ELSE file.rows[i][c]]]]>>

\* @st.cache_data: the stored frame for a file already seen, else a fresh parse
cached_load_data(memo, file) ==
    IF \E e \in memo : e[1] = file
    THEN (CHOOSE e \in memo : e[1] = file)[2]
    ELSE load_data(file)

----------------------------------------------------------------------------
(* Filter stage *)

\* sorted(df['Delivery Hub'].dropna().unique())
delivery_hubs(df) ==
    {df.rows[i]["Delivery Hub"][1] :
        i \in {j \in 1..Len(df.rows) : df.rows[j]["Delivery Hub"] # NaN}}

\* faulty variant: the mask is applied to an empty selection too
HubFilter_AlwaysMasked(df, hubs) ==
    [df EXCEPT !.rows =
        SelectSeq(df.rows, LAMBDA r : r["Delivery Hub"] # NaN /\ r["Delivery Hub"][1] \in hubs)]

\* df[df['Delivery Hub'].isin(selected_hubs)] if selected_hubs else df
HubFilter(df, hubs) ==
    IF hubs # {}
    THEN [df EXCEPT !.rows =
            SelectSeq(df.rows, LAMBDA r : r["Delivery Hub"] # NaN /\ r["Delivery Hub"][1] \in hubs)]
    ELSE df

\* Series.dt.date of one cell
dt_date(ts) == IF ts = NaT THEN NaT ELSE <<ts[1] \div HoursPerDay>>

\* filtered_df['Picked Date'] = filtered_df['Picked on'].dt.date
AddPickedDate(df) ==
    [columns |-> df.columns \cup {"Picked Date"},
     rows |-> [i \in 1..Len(df.rows) |->
                 [c \in df.columns \cup {"Picked Date"} |->
                     IF c = "Picked Date" THEN dt_date(df.rows[i]["Picked on"])
                     ELSE df.rows[i][c]]]]

\* filtered_df['Picked Date'].dropna().unique()
unique_dates(df) ==
    {df.rows[i]["Picked Date"][1] :
        i \in {j \in 1..Len(df.rows) : df.rows[j]["Picked Date"] # NaT}}

\* the tuples st.date_input can return for bounds [min_date, max_date]
DateInputValues(dates) ==
    {<<>>} \cup {<<s>> : s \in Min(dates)..Max(dates)}
           \cup UNION {{<<s, e>> : e \in s..Max(dates)} : s \in Min(dates)..Max(dates)}

\* default value=[min_date, max_date]
DateInputDefault(dates) == <<Min(dates), Max(dates)>>

\* faulty variant: the end of the range is excluded
DateFilter_EndExclusive(df, dates) ==
    IF Len(dates) = 2
    THEN [df EXCEPT !.rows =
            SelectSeq(df.rows, LAMBDA r : /\ r["Picked Date"] # NaT
                                     /\ r["Picked Date"][1] >= dates[1]
                                     /\ r["Picked Date"][1] < dates[2])]
    ELSE df

\* lines 63-69: the range filter applies only to a two-ended selection
DateFilter(df, dates) ==
    IF Len(dates) = 2
    THEN [df EXCEPT !.rows =
            SelectSeq(df.rows, LAMBDA r : /\ r["Picked Date"] # NaT
                                     /\ r["Picked Date"][1] >= dates[1]
                                     /\ r["Picked Date"][1] <= dates[2])]
    ELSE df

----------------------------------------------------------------------------
(* Aggregator *)

status_columns ==
    <<"Assigned", "At-Hub", "Moving-To-Hub", "Out-For-Delivery",
      "Picked", "Returned", "Returned-To-Hub", "Unable-To-Deliver">>

\* the status labels of the model in the order sort_index puts column labels
Alphabetical ==
    <<"Assigned", "At-Hub", "Delivered", "Moving-To-Hub", "Out-For-Delivery",
      "Picked", "Returned", "Returned-To-Hub", "Unable-To-Deliver">>

\* faulty variant: the status test is dropped
Eligible_AnyStatus(r) ==
    /\ r["Status"] # NaN
    /\ r["Picked Date"] # NaT

\* filtered_df['Status'].isin(status_columns) & filtered_df['Picked Date'].notna()
Eligible(r) ==
    /\ r["Status"] # NaN
    /\ r["Status"][1] \in Range(status_columns)
    /\ r["Picked Date"] # NaT

PivotRecords(df) == [df EXCEPT !.rows = SelectSeq(df.rows, Eligible)]

\* aggfunc='count': the number of non-null 'Order Number' cells of the group
CountOrders(rows, d, s) ==
    Cardinality({i \in 1..Len(rows) : /\ rows[i]["Picked Date"] = <<d>>
                                      /\ rows[i]["Status"] = <<s>>
                                      /\ rows[i]["Order Number"] # NaN})

\* pivot_table(index='Picked Date', columns='Status', values='Order Number',
\*             aggfunc='count', fill_value=0)
pivot_table(df) ==
    LET keyed   == {i \in 1..Len(df.rows) :
                      df.rows[i]["Picked Date"] # NaT /\ df.rows[i]["Status"] # NaN}
        dates   == {df.rows[i]["Picked Date"][1] : i \in keyed}
        present == {df.rows[i]["Status"][1] : i \in keyed}
    IN  [index   |-> sorted(dates),
         columns |-> SelectSeq(Alphabetical, LAMBDA s : s \in present),
         cells   |-> [d \in dates |-> [s \in present |-> CountOrders(df.rows, d, s)]]]

\* faulty variant: the columns are left as the pivot produced them
reindex_Skipped(p, labels, fill) == p

\* DataFrame.reindex(columns=labels, fill_value=fill)
reindex(p, labels, fill) ==
    [index   |-> p.index,
     columns |-> labels,
     cells   |-> [d \in DOMAIN p.cells |->
                    [c \in Range(labels) |->
                        IF c \in Range(p.columns) THEN p.cells[d][c] ELSE fill]]]

\* faulty variant: count(axis=1) in place of sum(axis=1)
RowSum_Count(p, d) == Len(p.columns)

\* DataFrame.sum(axis=1) of one row: over every column the frame has
RowSum(p, d) == SumSeq([i \in 1..Len(p.columns) |-> p.cells[d][p.columns[i]]])

\* pivot_data['Total'] = pivot_data.sum(axis=1)
AddTotal(p) ==
    [index   |-> p.index,
     columns |-> p.columns \o <<"Total">>,
     cells   |-> [d \in DOMAIN p.cells |->
                    [c \in Range(p.columns) \cup {"Total"} |->
                        IF c = "Total" THEN RowSum(p, d) ELSE p.cells[d][c]]]]

\* display_data.sum().to_dict(): column-wise sums, Total included
grand_totals(p) ==
    [c \in Range(p.columns) |-> SumSeq([i \in 1..Len(p.index) |-> p.cells[p.index[i]][c]])]

\* str(datetime.date)
Calendar == <<"2024-01-01", "2024-01-02", "2024-01-03", "2024-01-04">>
DateStr(d) == Calendar[d + 1]

\* lines 102-111: copy, index.astype(str), then the 'Grand Total' row
DisplayData(p) ==
    LET labels == [i \in 1..Len(p.index) |-> DateStr(p.index[i])]
    IN  [index   |-> labels \o <<"Grand Total">>,
         columns |-> p.columns,
         cells   |-> [k \in Range(labels) \cup {"Grand Total"} |->
                        IF k = "Grand Total" THEN grand_totals(p)
                        ELSE p.cells[CHOOSE d \in Range(p.index) : DateStr(d) = k]]]

\* faulty variant: truncation in place of rounding
Round1_Truncated(num, den) == (10 * num) \div den

\* round(x, 1) of the quotient num/den, in tenths, ties to even
Round1(num, den) ==
    LET q == (10 * num) \div den
        r == (10 * num) % den
    IN  IF 2 * r < den THEN q
        ELSE IF 2 * r > den THEN q + 1
        ELSE IF q % 2 = 0 THEN q ELSE q + 1

\* Series.mean() rounded: NaN for an empty column
RoundedMean(values) ==
    IF values = <<>> THEN NaN ELSE <<Round1(SumSeq(values), Len(values))>>

\* the per-date 'Total' column of a frame
TotalColumn(p) == [i \in 1..Len(p.index) |-> p.cells[p.index[i]]["Total"]]

\* faulty variant: the statistics read the display copy, Grand Total row included
Metrics_OfDisplay(p, disp) ==
    [total_orders |-> disp.cells["Grand Total"]["Total"],
     unique_dates |-> Len(disp.index),
     average      |-> RoundedMean([i \in 1..Len(disp.index) |->
                                     disp.cells[disp.index[i]]["Total"]])]

\* lines 126-132
Metrics(p, disp) ==
    [total_orders |-> disp.cells["Grand Total"]["Total"],
     unique_dates |-> Len(p.index),
     average      |-> RoundedMean(TotalColumn(p))]

----------------------------------------------------------------------------
(* main *)

Nothing(how, text) ==
    [outcome |-> how, message |-> text, hub_filtered_df |-> NoFrame,
     filtered_df |-> NoFrame,
     pivot_records |-> NoFrame, pivot_data |-> NoPivot, display_data |-> NoPivot,
     metrics |-> NoMetrics, rows_shown |-> NoFrame]

\* lines 79-145: the body of the try block, for a frame that has the columns
Aggregate(fdf) ==
    LET recs  == PivotRecords(fdf)
        pivot == AddTotal(reindex(pivot_table(recs), status_columns, 0))
        disp  == DisplayData(pivot)
    IN  [outcome |-> "ok", message |-> "", hub_filtered_df |-> NoFrame,
         filtered_df |-> fdf,
         pivot_records |-> recs, pivot_data |-> pivot, display_data |-> disp,
         metrics |-> Metrics(pivot, disp), rows_shown |-> recs]

\* lines 147-150: the except branch
SchemaError(fdf) ==
    [Nothing("schema_error", "Error creating pivot table") EXCEPT
        !.filtered_df = fdf, !.rows_shown = fdf]

\* lines 79-150
TryAggregate(fdf) ==
    IF "Status" \in fdf.columns /\ "Order Number" \in fdf.columns
    THEN Aggregate(fdf)
    ELSE SchemaError(fdf)

\* lines 36-150 for a loaded frame and the values the two widgets return;
\* a KeyError raised before the try block leaves main() uncaught
main(df, hubs, dates) ==
    IF "Delivery Hub" \notin df.columns THEN Nothing("uncaught", "KeyError")
    ELSE IF "Picked on" \notin df.columns
    THEN [Nothing("uncaught", "KeyError") EXCEPT !.hub_filtered_df = HubFilter(df, hubs)]
    ELSE LET dated == AddPickedDate(HubFilter(df, hubs))
         IN  [TryAggregate(IF unique_dates(dated) # {}
                           THEN DateFilter(dated, dates) ELSE dated)
                EXCEPT !.hub_filtered_df = HubFilter(df, hubs)]

\* the options of the multiselect
HubChoices(df) ==
    IF "Delivery Hub" \in df.columns THEN SUBSET delivery_hubs(df) ELSE {{}}

HubDefault(df) ==
    IF "Delivery Hub" \in df.columns THEN delivery_hubs(df) ELSE {}

\* the dates the date_input is built on; empty when it is not rendered
WidgetDates(df, hubs) ==
    IF "Delivery Hub" \in df.columns /\ "Picked on" \in df.columns
    THEN unique_dates(AddPickedDate(HubFilter(df, hubs)))
    ELSE {}

DateChoices(df, hubs) ==
    IF WidgetDates(df, hubs) # {} THEN DateInputValues(WidgetDates(df, hubs)) ELSE {<<>>}

DateDefault(df, hubs) ==
    IF WidgetDates(df, hubs) # {} THEN DateInputDefault(WidgetDates(df, hubs)) ELSE <<>>

----------------------------------------------------------------------------
(* Actions: each is one execution of the script *)

Render(r) ==
    /\ outcome' = r.outcome
    /\ message' = r.message
    /\ hub_filtered_df' = r.hub_filtered_df
    /\ filtered_df' = r.filtered_df
    /\ pivot_records' = r.pivot_records
    /\ pivot_data' = r.pivot_data
    /\ display_data' = r.display_data
    /\ metrics' = r.metrics
    /\ rows_shown' = r.rows_shown

\* faulty variant: a run starts from the frame the previous run filtered
Loaded_PreviousRun ==
    IF filtered_df # NoFrame THEN <<filtered_df>>
    ELSE cached_load_data(cache, uploaded_file[1])

\* line 32: the frame load_data hands to a run on the uploaded file
Loaded == cached_load_data(cache, uploaded_file[1])

\* lines 31-150 on the frame df of file, the widgets returning hubs and dates
Execute(file, df, hubs, dates) ==
    /\ cache' = cache \cup {<<file, load_data(file)>>}
    /\ IF df = None
       THEN /\ selected_hubs' = {}
            /\ selected_dates' = <<>>
            /\ Render(Nothing("load_error", "Error loading data"))
       ELSE /\ selected_hubs' = hubs
            /\ selected_dates' = dates
            /\ \E r \in {main(df[1], hubs, dates)} : Render(r)

\* the user uploads the file: first run, every widget at its default
Upload ==
    /\ uploaded_file = NoFile
    /\ uploaded_file' = <<disk>>
    /\ LET df == cached_load_data(cache, disk)
       IN  IF df = None THEN Execute(disk, df, {}, <<>>)
           ELSE Execute(disk, df, HubDefault(df[1]),
                        DateDefault(df[1], HubDefault(df[1])))
    /\ UNCHANGED disk

\* the user changes the hub selection; the date widget returns a value
\* within its new bounds
SelectHubs ==
    /\ uploaded_file # NoFile
    /\ Loaded # None
    /\ \E hubs \in HubChoices(Loaded[1]) \ {selected_hubs} :
         \E dates \in DateChoices(Loaded[1], hubs) :
            Execute(uploaded_file[1], Loaded, hubs, dates)
    /\ UNCHANGED <<disk, uploaded_file>>

\* the user changes the date range
SelectDates ==
    /\ uploaded_file # NoFile
    /\ Loaded # None
    /\ \E dates \in DateChoices(Loaded[1], selected_hubs) \ {selected_dates} :
            Execute(uploaded_file[1], Loaded, selected_hubs, dates)
    /\ UNCHANGED <<disk, uploaded_file>>

\* any other rerun (e.g. a click on the download button): same widget values
Rerun ==
    /\ uploaded_file # NoFile
    /\ Execute(uploaded_file[1], Loaded, selected_hubs, selected_dates)
    /\ UNCHANGED <<disk, uploaded_file>>

\* the user removes the file: line 31 skips everything
RemoveFile ==
    /\ uploaded_file # NoFile
    /\ uploaded_file' = NoFile
    /\ selected_hubs' = {}
    /\ selected_dates' = <<>>
    /\ Render(Nothing("no_file", ""))
    /\ UNCHANGED <<disk, cache>>

\* history: remember the selections and the pivot table of one successful
\* run, and whether a later run had other selections
Observe ==
    IF observed = <<>>
    THEN IF outcome' = "ok"
         THEN observed' \in {<<>>, <<[hubs |-> selected_hubs', dates |-> selected_dates',
                                     pivot |-> pivot_data', away |-> FALSE]>>}
         ELSE observed' = observed
    ELSE observed' = <<[observed[1] EXCEPT !.away =
                          \/ @
                          \/ selected_hubs' # observed[1].hubs
                          \/ selected_dates' # observed[1].dates]>>

----------------------------------------------------------------------------
(* Input files *)

Row(hub, picked, status, order) ==
    ("Delivery Hub" :> hub) @@ ("Picked on" :> picked) @@
    ("Status" :> status) @@ ("Order Number" :> order)

Project(r, columns) == [c \in columns |-> r[c]]

SeqsUpTo(S, n) == UNION {[1..k -> S] : k \in 0..n}

CsvFiles(schemas, rows, n) ==
    {[parses |-> TRUE, columns |-> cs, rows |-> rs] :
        cs \in schemas, rs \in SeqsUpTo(rows, n)}

AllColumns == {"Delivery Hub", "Picked on", "Status", "Order Number"}

StartState ==
    /\ uploaded_file = NoFile
    /\ cache = {}
    /\ selected_hubs = {}
    /\ selected_dates = <<>>
    /\ outcome = "no_file"
    /\ message = ""
    /\ hub_filtered_df = NoFrame
    /\ filtered_df = NoFrame
    /\ pivot_records = NoFrame
    /\ pivot_data = NoPivot
    /\ display_data = NoPivot
    /\ metrics = NoMetrics
    /\ rows_shown = NoFrame
    /\ observed = <<>>

\* CSV cells
HubA == <<"HubA">>
HubB == <<"HubB">>
Day1Morning == <<"2024-01-01 09:00">>
Day1Evening == <<"2024-01-01 17:30">>
Day2 == <<"2024-01-02 09:00">>
Day3 == <<"2024-01-03 09:00">>
Unparsable == <<"n/a">>
Order == <<1001>>

MaxRowsAgg == 2
MaxRowsOrders == 2
MaxRowsStats == 3
MaxRowsFilter == 2
MaxRowsSchema == 2
MaxRowsHistory == 2

\* aggregation: statuses inside and outside the vocabulary, two timestamps
\* of one day, missing dates
InitAgg ==
    /\ disk \in CsvFiles({AllColumns},
                         {Row(h, p, s, o) :
                            h \in {HubA},
                            p \in {Day1Morning, Day1Evening, Day2, NaN},
                            s \in {<<"Picked">>, <<"At-Hub">>, <<"Delivered">>},
                            o \in {Order}}, MaxRowsAgg)
    /\ StartState

\* counting: missing order numbers, statuses outside the vocabulary
InitOrders ==
    /\ disk \in CsvFiles({AllColumns},
                         {Row(h, p, s, o) :
                            h \in {HubA},
                            p \in {Day1Morning, Day1Evening, Day2, NaN},
                            s \in {<<"Picked">>, <<"Delivered">>},
                            o \in {Order, NaN}}, MaxRowsOrders)
    /\ StartState

\* statistics: up to three dates, missing order numbers
InitStats ==
    /\ disk \in CsvFiles({AllColumns},
                         {Row(h, p, s, o) :
                            h \in {HubA},
                            p \in {Day1Morning, Day2, Day3},
                            s \in {<<"Picked">>},
                            o \in {Order, NaN}}, MaxRowsStats)
    /\ StartState

\* filtering: two hubs and rows without hub, three dates and unparsable ones
InitFilter ==
    /\ disk \in CsvFiles({AllColumns},
                         {Row(h, p, s, o) :
                            h \in {HubA, HubB, NaN},
                            p \in {Day1Morning, Day2, Day3, Unparsable},
                            s \in {<<"Picked">>},
                            o \in {Order}}, MaxRowsFilter)
    /\ StartState

\* schemas: every subset of the four columns, and a file that does not parse
Init ==
    /\ disk \in {[parses |-> FALSE, columns |-> {}, rows |-> <<>>]} \cup
                 {[f EXCEPT !.rows = [i \in 1..Len(f.rows) |-> Project(f.rows[i], f.columns)]] :
                    f \in CsvFiles(SUBSET AllColumns,
                                   {Row(h, p, s, o) :
                                      h \in {HubA, NaN},
                                      p \in {Day1Morning, Unparsable},
                                      s \in {<<"Picked">>, <<"Delivered">>},
                                      o \in {Order}}, MaxRowsSchema)}
    /\ StartState

\* history: two hubs, two dates
InitHistory ==
    /\ disk \in CsvFiles({AllColumns},
                         {Row(h, p, s, o) :
                            h \in {HubA, HubB},
                            p \in {Day1Morning, Day2},
                            s \in {<<"Picked">>},
                            o \in {Order}}, MaxRowsHistory)
    /\ StartState

Next ==
    \/ Upload /\ UNCHANGED observed
    \/ SelectHubs /\ UNCHANGED observed
    \/ SelectDates /\ UNCHANGED observed
    \/ Rerun /\ UNCHANGED observed
    \/ RemoveFile /\ UNCHANGED observed

NextHistory ==
    \/ Upload /\ Observe
    \/ SelectHubs /\ Observe
    \/ SelectDates /\ Observe
    \/ Rerun /\ Observe
    \/ RemoveFile /\ Observe

Spec == Init /\ [][Next]_vars
SpecAgg == InitAgg /\ [][Next]_vars
SpecOrders == InitOrders /\ [][Next]_vars
SpecStats == InitStats /\ [][Next]_vars
SpecFilter == InitFilter /\ [][Next]_vars
SpecHistory == InitHistory /\ [][NextHistory]_vars

----------------------------------------------------------------------------
(* Properties *)

\* the rows of the last run's filtered_df, and the dates of the pivot table
Filtered == filtered_df.rows
PivotDates == Range(pivot_data.index)

InVocabulary(r) ==
    r["Status"] # NaN /\ \E k \in 1..Len(status_columns) : r["Status"][1] = status_columns[k]

\* the rows of filtered_df with date d and status s that are eligible
EligibleRows(d, s) ==
    {i \in 1..Len(Filtered) : /\ InVocabulary(Filtered[i])
                              /\ Filtered[i]["Picked Date"] = <<d>>
                              /\ Filtered[i]["Status"] = <<s>>}

\* C1: every cell (d, s) of the pivot table, d a row of the table and s a
\* status of the vocabulary, is present and equals the number of eligible
\* rows of the filtered row set with Picked Date d and Status s.
C1_CellCountsEligibleRows ==
    outcome = "ok" =>
        \A d \in PivotDates : \A k \in 1..Len(status_columns) :
            /\ status_columns[k] \in DOMAIN pivot_data.cells[d]
            /\ pivot_data.cells[d][status_columns[k]] =
                    Cardinality(EligibleRows(d, status_columns[k]))

\* the non-null Picked Dates of the filtered rows
FilteredDates == {Filtered[i]["Picked Date"][1] :
                    i \in {j \in 1..Len(Filtered) : Filtered[j]["Picked Date"] # NaT}}

\* the Picked Dates of the filtered rows whose status is in the vocabulary
EligibleDates == {Filtered[i]["Picked Date"][1] :
                    i \in {j \in 1..Len(Filtered) : /\ Filtered[j]["Picked Date"] # NaT
                                                     /\ InVocabulary(Filtered[j])}}

\* C2 as stated: the row keys of the pivot table are exactly the distinct
\* non-null Picked Dates of the filtered record set.
C2_RowsAreFilteredDates ==
    outcome = "ok" => PivotDates = FilteredDates

\* C2 amended: the row keys of the pivot table are exactly the distinct
\* non-null Picked Dates of the filtered rows whose Status is in the
\* vocabulary, each once, whatever their order numbers.
C2_RowsAreEligibleDates ==
    outcome = "ok" =>
        /\ PivotDates = EligibleDates
        /\ Len(pivot_data.index) = Cardinality(EligibleDates)

\* a date occurs only with a status outside the vocabulary, another date with
\* a vocabulary status but no order number
C2_Witness ==
    /\ outcome = "ok"
    /\ FilteredDates \ EligibleDates # {}
    /\ \E d \in PivotDates : pivot_data.cells[d]["Total"] = 0

\* C3: the columns of the pivot table are the eight statuses of the
\* vocabulary, in vocabulary order, followed by Total, whichever statuses the
\* data holds and also when no row is eligible; the display copy has the same.
C3_ColumnsAreVocabularyPlusTotal ==
    outcome = "ok" =>
        /\ pivot_data.columns =
              <<"Assigned", "At-Hub", "Moving-To-Hub", "Out-For-Delivery",
                "Picked", "Returned", "Returned-To-Hub", "Unable-To-Deliver", "Total">>
        /\ display_data.columns = pivot_data.columns
        /\ \A d \in PivotDates : DOMAIN pivot_data.cells[d] = Range(pivot_data.columns)

\* a selection leaves rows but none of them eligible
C3_Witness ==
    /\ outcome = "ok"
    /\ Filtered # <<>>
    /\ pivot_records.rows = <<>>
    /\ Len(selected_dates) = 2

\* the sum of f over the finite set S
RECURSIVE SumOver(_, _)
SumOver(S, f) ==
    IF S = {} THEN 0
    ELSE LET x == CHOOSE y \in S : TRUE IN f[x] + SumOver(S \ {x}, f)

Vocabulary == {status_columns[k] : k \in 1..Len(status_columns)}

\* C4: the Total of each date row is the sum of the row's vocabulary columns;
\* the Grand Total row's Total is the sum of the per-date Totals and each of
\* its status cells the sum of that column over the date rows.
C4_TotalsAreSums ==
    outcome = "ok" =>
        /\ \A d \in PivotDates :
              pivot_data.cells[d]["Total"] = SumOver(Vocabulary, pivot_data.cells[d])
        /\ display_data.cells["Grand Total"]["Total"] =
              SumOver(PivotDates, [d \in PivotDates |-> pivot_data.cells[d]["Total"]])
        /\ \A s \in Vocabulary :
              display_data.cells["Grand Total"][s] =
                SumOver(PivotDates, [d \in PivotDates |-> pivot_data.cells[d][s]])

\* two date rows with different statuses
C4_Witness ==
    /\ outcome = "ok"
    /\ Cardinality(PivotDates) = 2
    /\ display_data.cells["Grand Total"]["Picked"] = 1
    /\ display_data.cells["Grand Total"]["At-Hub"] = 1
    /\ display_data.cells["Grand Total"]["Total"] = 2

\* C10: the Grand Total row is in the display copy only: the numeric pivot
\* table keeps one row per date with the values the display copy shows for
\* that date, and Unique Dates counts the dates, not the Grand Total row.
C10_GrandTotalOnlyInDisplay ==
    outcome = "ok" =>
        /\ Len(display_data.index) = Len(pivot_data.index) + 1
        /\ display_data.index[Len(display_data.index)] = "Grand Total"
        /\ PivotDates = EligibleDates
        /\ \A i \in 1..Len(pivot_data.index) :
              pivot_data.cells[pivot_data.index[i]] = display_data.cells[display_data.index[i]]
        /\ metrics.unique_dates = Cardinality(EligibleDates)
        /\ metrics.average # NaN =>
              metrics.average =
                <<Round1(SumOver(PivotDates, [d \in PivotDates |-> pivot_data.cells[d]["Total"]]),
                         Cardinality(EligibleDates))>>

\* a Grand Total that differs from every per-date Total
C10_Witness ==
    /\ outcome = "ok"
    /\ Cardinality(PivotDates) = 2
    /\ \A d \in PivotDates :
          pivot_data.cells[d]["Total"] # display_data.cells["Grand Total"]["Total"]

Abs(x) == IF x < 0 THEN -x ELSE x

\* the sum of the per-date Total column of the pivot table
TotalOfTotals == SumOver(PivotDates, [d \in PivotDates |-> pivot_data.cells[d]["Total"]])

\* C8: Unique Dates is the number of distinct dates of the pivot table, Total
\* Orders the sum of the per-date Total column, and Average Orders per Day
\* that sum divided by that number, rounded to one decimal: the tenth nearest
\* to the quotient, the even one on a tie (NaN, the value of 0/0, when the
\* table has no date).
C8_SummaryMetrics ==
    outcome = "ok" =>
        /\ metrics.unique_dates = Cardinality(PivotDates)
        /\ metrics.total_orders = TotalOfTotals
        /\ IF PivotDates = {} THEN metrics.average = NaN
           ELSE /\ metrics.average # NaN
                /\ LET n    == Cardinality(PivotDates)
                       off  == Abs(10 * TotalOfTotals - metrics.average[1] * n)
                   IN  /\ 2 * off <= n
                       /\ 2 * off = n => metrics.average[1] % 2 = 0

\* three dates with two orders: 0.666... is shown as 0.7
C8_Witness ==
    /\ outcome = "ok"
    /\ Cardinality(PivotDates) = 3
    /\ metrics.total_orders = 2
    /\ metrics.average = <<7>>

RequiredFields == {"Status", "Order Number", "Picked on"}

\* C5: when the table loaded and a required field (Status, Order Number or
\* 'Picked on') is absent, the run ends in the reported schema error: the
\* error message is shown with the unaggregated filtered rows, and nothing is
\* left uncaught.  (Stated for tables that have the 'Delivery Hub' column.)
C5_MissingFieldIsReported ==
    (/\ uploaded_file # NoFile
     /\ Loaded # None
     /\ "Delivery Hub" \in Loaded[1].columns
     /\ ~(RequiredFields \subseteq Loaded[1].columns))
    => /\ outcome = "schema_error"
       /\ message = "Error creating pivot table"
       /\ rows_shown = filtered_df

\* the rows of seq at the indices of keep, in order
Kept(seq, keep) == [k \in 1..Cardinality(keep) |-> seq[sorted(keep)[k]]]

\* C6: with a two-ended range [start, end] the filter stage yields exactly the
\* hub-filtered rows whose Picked Date d has start <= d <= end, in input
\* order; rows without Picked Date are left out.
C6_DateRangeInclusive ==
    (outcome = "ok" /\ Len(selected_dates) = 2) =>
        LET base == hub_filtered_df.rows
            keep == {i \in 1..Len(base) :
                       /\ base[i]["Picked on"] # NaT
                       /\ selected_dates[1] * HoursPerDay <= base[i]["Picked on"][1]
                       /\ base[i]["Picked on"][1] < (selected_dates[2] + 1) * HoursPerDay}
        IN  /\ Len(Filtered) = Cardinality(keep)
            /\ [k \in 1..Len(Filtered) |-> Project(Filtered[k], AllColumns)] = Kept(base, keep)

\* a row on the day that is both ends of the range is kept, a row without
\* date is dropped
C6_Witness ==
    /\ outcome = "ok"
    /\ Len(selected_dates) = 2
    /\ selected_dates[1] = selected_dates[2]
    /\ Len(hub_filtered_df.rows) = 2
    /\ Len(Filtered) = 1
    /\ Filtered[1]["Picked Date"] = <<selected_dates[2]>>
    /\ \E i \in 1..2 : hub_filtered_df.rows[i]["Picked on"] = NaT

\* C7: the hub filter keeps exactly the rows whose Delivery Hub is in the
\* selected set, in input order; with an empty selection it keeps every
\* loaded row, rows without hub included.
C7_HubFilter ==
    outcome = "ok" =>
        LET rows == Loaded[1].rows
            keep == IF selected_hubs = {} THEN 1..Len(rows)
                    ELSE {i \in 1..Len(rows) :
                            /\ rows[i]["Delivery Hub"] # NaN
                            /\ rows[i]["Delivery Hub"][1] \in selected_hubs}
        IN  hub_filtered_df.rows = Kept(rows, keep)

\* an empty selection on a table with a row of a hub and a row without hub
C7_Witness ==
    /\ outcome = "ok"
    /\ selected_hubs = {}
    /\ \E i \in 1..Len(hub_filtered_df.rows) : hub_filtered_df.rows[i]["Delivery Hub"] = NaN
    /\ \E i \in 1..Len(hub_filtered_df.rows) : hub_filtered_df.rows[i]["Delivery Hub"] # NaN

\* C9: a run with the hub selection and date range of an earlier run on the
\* same table produces the pivot table of that earlier run, whatever was
\* selected in between.
C9_SameSelectionsSamePivot ==
    (/\ observed # <<>>
     /\ outcome = "ok"
     /\ selected_hubs = observed[1].hubs
     /\ selected_dates = observed[1].dates)
    => pivot_data = observed[1].pivot

\* back at the observed selections after a run with other selections
C9_Witness ==
    /\ observed # <<>>
    /\ observed[1].away
    /\ outcome = "ok"
    /\ selected_hubs = observed[1].hubs
    /\ selected_dates = observed[1].dates
    /\ Len(pivot_data.index) = 2

====
